---------------------------- MODULE Spec2Model ----------------------------
(***************************************************************************)
(* Conversion engine of the romanized-Thai input method (src/main.py and   *)
(* src/app.py): glyph tables, syllable tokenizer and assembler, compound   *)
(* segmenter, dictionary lookup and suggestion engine.                     *)
(*                                                                         *)
(* A Python str is a sequence of one-character strings.  A Thai code point *)
(* is written by its Unicode name ("KoKai" is U+0E01 THAI CHARACTER KO     *)
(* KAI), so a Thai string is a sequence of such names.  Python's None is   *)
(* the value Fail.                                                         *)
(***************************************************************************)
EXTENDS Integers, Sequences, FiniteSets, TLC

VARIABLES pc, arg, limit, variant, merged, out, stack, ret, tables, calls

vars == <<pc, arg, limit, variant, merged, out, stack, ret, tables, calls>>

-----------------------------------------------------------------------------
(* 1. MAPPINGS *)

\* Onset table, in the insertion order of the dict literal (roman key -> Thai glyphs).
CONSONANT_ONSET ==
  << [key |-> <<"k", "h">>, thai |-> <<"KhoKhai">>],
     [key |-> <<"k">>, thai |-> <<"KoKai">>],
     [key |-> <<"p", "h">>, thai |-> <<"PhoPhung">>],
     [key |-> <<"p">>, thai |-> <<"PoPla">>],
     [key |-> <<"t", "h">>, thai |-> <<"ThoThung">>],
     [key |-> <<"t">>, thai |-> <<"ToTao">>],
     [key |-> <<"c", "h">>, thai |-> <<"ChoChang">>],
     [key |-> <<"c">>, thai |-> <<"ChoChan">>],
     [key |-> <<"j">>, thai |-> <<"ChoChan">>],
     [key |-> <<"b">>, thai |-> <<"BoBaimai">>],
     [key |-> <<"d">>, thai |-> <<"DoDek">>],
     [key |-> <<"f">>, thai |-> <<"FoFan">>],
     [key |-> <<"s">>, thai |-> <<"SoSua">>],
     [key |-> <<"h">>, thai |-> <<"HoHip">>],
     [key |-> <<"m">>, thai |-> <<"MoMa">>],
     [key |-> <<"n">>, thai |-> <<"NoNu">>],
     [key |-> <<"n", "g">>, thai |-> <<"NgoNgu">>],
     [key |-> <<"r">>, thai |-> <<"RoRua">>],
     [key |-> <<"l">>, thai |-> <<"LoLing">>],
     [key |-> <<"w">>, thai |-> <<"WoWaen">>],
     [key |-> <<"y">>, thai |-> <<"YoYak">>],
     [key |-> <<"?">>, thai |-> <<"OAng">>],
     [key |-> <<"p", "r">>, thai |-> <<"PoPla", "RoRua">>],
     [key |-> <<"p", "h", "r">>, thai |-> <<"PhoPhan", "RoRua">>],
     [key |-> <<"k", "r">>, thai |-> <<"KoKai", "RoRua">>],
     [key |-> <<"k", "h", "r">>, thai |-> <<"KhoKhwai", "RoRua">>],
     [key |-> <<"t", "r">>, thai |-> <<"ToTao", "RoRua">>],
     [key |-> <<"p", "l">>, thai |-> <<"PoPla", "LoLing">>],
     [key |-> <<"p", "h", "l">>, thai |-> <<"PhoPhan", "LoLing">>],
     [key |-> <<"k", "l">>, thai |-> <<"KoKai", "LoLing">>],
     [key |-> <<"k", "h", "l">>, thai |-> <<"KhoKhwai", "LoLing">>],
     [key |-> <<"k", "w">>, thai |-> <<"KoKai", "WoWaen">>],
     [key |-> <<"k", "h", "w">>, thai |-> <<"KhoKhai", "WoWaen">>],
     [key |-> <<"h", "n", "g">>, thai |-> <<"HoHip", "NgoNgu">>],
     [key |-> <<"h", "n">>, thai |-> <<"HoHip", "NoNu">>],
     [key |-> <<"h", "m">>, thai |-> <<"HoHip", "MoMa">>],
     [key |-> <<"h", "y">>, thai |-> <<"HoHip", "YoYak">>],
     [key |-> <<"h", "r">>, thai |-> <<"HoHip", "RoRua">>],
     [key |-> <<"h", "l">>, thai |-> <<"HoHip", "LoLing">>],
     [key |-> <<"h", "w">>, thai |-> <<"HoHip", "WoWaen">>] >>

\* Homophonic alternatives for an onset key.
ALT_ONSET_FORMS ==
  << [key |-> <<"t", "h">>, forms |-> <<<<"ThoThung">>, <<"ThoThahan">>, <<"ThoThong">>, <<"ThoPhuthao">>, <<"ThoThan">>>>],
     [key |-> <<"p", "h">>, forms |-> <<<<"PhoPhung">>, <<"PhoPhan">>, <<"PhoSamphao">>>>],
     [key |-> <<"c", "h">>, forms |-> <<<<"ChoChang">>, <<"ChoChing">>, <<"ChoChoe">>>>],
     [key |-> <<"s">>, forms |-> <<<<"SoSua">>, <<"SoSo">>, <<"SoSala">>, <<"SoRusi">>>>],
     [key |-> <<"h">>, forms |-> <<<<"HoHip">>, <<"HoNokhuk">>>>],
     [key |-> <<"y">>, forms |-> <<<<"YoYak">>, <<"YoYing">>>>],
     [key |-> <<"f">>, forms |-> <<<<"FoFan">>, <<"FoFa">>>>],
     [key |-> <<"k">>, forms |-> <<<<"KoKai">>, <<"SaraAiMaimalai", "KoKai">>>>],
     [key |-> <<"k", "h">>, forms |-> <<<<"KhoKhai">>, <<"KhoKhwai">>, <<"KhoRakhang">>>>],
     [key |-> <<"d">>, forms |-> <<<<"DoDek">>, <<"DoChada">>>>],
     [key |-> <<"t">>, forms |-> <<<<"ToTao">>, <<"ToPatak">>>>],
     [key |-> <<"n">>, forms |-> <<<<"NoNu">>, <<"NoNen">>>>],
     [key |-> <<"l">>, forms |-> <<<<"LoLing">>, <<"LoChula">>>>] >>

\* Homophonic alternatives for a coda key.
ALT_CODA_FORMS ==
  << [key |-> <<"n">>, forms |-> <<<<"NoNu">>, <<"RoRua">>, <<"LoLing">>, <<"YoYing">>, <<"NoNen">>, <<"LoChula">>, <<"RoRua", "YoYak", "Thanthakhat">>>>],
     [key |-> <<"t">>, forms |-> <<<<"DoDek">>, <<"ToTao">>, <<"ThoThahan">>, <<"ThoThong">>, <<"SoSala">>, <<"SoRusi">>, <<"SoSua">>, <<"ChoChan">>, <<"ChoChang">>, <<"SoSo">>, <<"DoChada">>, <<"ToPatak">>, <<"ThoThan">>, <<"ThoNangmontho">>, <<"ThoPhuthao">>, <<"ToTao", "SaraI">>, <<"ToTao", "SaraU">>, <<"ToTao", "WoWaen", "Thanthakhat">>>>],
     [key |-> <<"p">>, forms |-> <<<<"BoBaimai">>, <<"PoPla">>, <<"PhoPhan">>, <<"FoFan">>, <<"PhoSamphao">>, <<"PhoPhan", "ThoThong", "Thanthakhat">>>>],
     [key |-> <<"k">>, forms |-> <<<<"KoKai">>, <<"KhoKhai">>, <<"KhoKhwai">>, <<"KhoRakhang">>, <<"KhoKhwai", "RoRua", "Thanthakhat">>>>] >>

\* Vowel table: roman key -> (pre-consonant, on-stack, post-consonant) glyphs.
VOWEL_MAP ==
  << [key |-> <<"a">>, pre |-> <<>>, main |-> <<>>, post |-> <<"SaraA">>],
     [key |-> <<"a", "a">>, pre |-> <<>>, main |-> <<>>, post |-> <<"SaraAa">>],
     [key |-> <<"i">>, pre |-> <<>>, main |-> <<"SaraI">>, post |-> <<>>],
     [key |-> <<"i", "i">>, pre |-> <<>>, main |-> <<"SaraIi">>, post |-> <<>>],
     [key |-> <<"u">>, pre |-> <<>>, main |-> <<"SaraU">>, post |-> <<>>],
     [key |-> <<"u", "u">>, pre |-> <<>>, main |-> <<"SaraUu">>, post |-> <<>>],
     [key |-> <<"e">>, pre |-> <<"SaraE">>, main |-> <<"Maitaikhu">>, post |-> <<>>],
     [key |-> <<"e", "e">>, pre |-> <<"SaraE">>, main |-> <<>>, post |-> <<>>],
     [key |-> <<"o">>, pre |-> <<"SaraO">>, main |-> <<>>, post |-> <<"SaraA">>],
     [key |-> <<"o", "o">>, pre |-> <<"SaraO">>, main |-> <<>>, post |-> <<>>],
     [key |-> <<"a", "e">>, pre |-> <<"SaraAe">>, main |-> <<>>, post |-> <<"SaraA">>],
     [key |-> <<"a", "e", "e">>, pre |-> <<"SaraAe">>, main |-> <<>>, post |-> <<>>],
     [key |-> <<"e", "a">>, pre |-> <<"SaraAe">>, main |-> <<>>, post |-> <<"SaraA">>],
     [key |-> <<"e", "a", "a">>, pre |-> <<"SaraAe">>, main |-> <<>>, post |-> <<>>],
     [key |-> <<"o", "e">>, pre |-> <<"SaraE">>, main |-> <<>>, post |-> <<"OAng", "SaraA">>],
     [key |-> <<"o", "e", "e">>, pre |-> <<"SaraE">>, main |-> <<>>, post |-> <<"OAng">>],
     [key |-> <<"e", "r", "r">>, pre |-> <<"SaraE">>, main |-> <<>>, post |-> <<"OAng", "SaraA">>],
     [key |-> <<"e", "r">>, pre |-> <<"SaraE">>, main |-> <<>>, post |-> <<"OAng">>],
     [key |-> <<"o", "r">>, pre |-> <<"SaraE">>, main |-> <<>>, post |-> <<"SaraAa", "SaraA">>],
     [key |-> <<"o", "r", "r">>, pre |-> <<>>, main |-> <<>>, post |-> <<"OAng">>],
     [key |-> <<"i", "a">>, pre |-> <<"SaraE">>, main |-> <<"SaraIi">>, post |-> <<"YoYak">>],
     [key |-> <<"u", "a">>, pre |-> <<>>, main |-> <<"MaiHanAkat">>, post |-> <<"WoWaen">>],
     [key |-> <<"a", "i">>, pre |-> <<"SaraAiMaimalai">>, main |-> <<>>, post |-> <<>>],
     [key |-> <<"a", "y">>, pre |-> <<"SaraAiMaimalai">>, main |-> <<>>, post |-> <<>>],
     [key |-> <<"a", "w">>, pre |-> <<"SaraE">>, main |-> <<>>, post |-> <<"SaraAa">>],
     [key |-> <<"u", "e", "a">>, pre |-> <<"SaraE">>, main |-> <<"SaraUee">>, post |-> <<"OAng">>],
     [key |-> <<"a", "m">>, pre |-> <<>>, main |-> <<>>, post |-> <<"SaraAm">>] >>

\* Tone digit -> tone mark (digit 1 maps to the empty string).
TONE_MAP ==
  << [key |-> <<"1">>, thai |-> <<>>],
     [key |-> <<"2">>, thai |-> <<"MaiEk">>],
     [key |-> <<"3">>, thai |-> <<"MaiTho">>],
     [key |-> <<"4">>, thai |-> <<"MaiTri">>],
     [key |-> <<"5">>, thai |-> <<"MaiChattawa">>] >>

\* Coda table: roman key -> final-consonant glyph.
CODA_MAP ==
  << [key |-> <<"n", "g">>, thai |-> <<"NgoNgu">>],
     [key |-> <<"k">>, thai |-> <<"KoKai">>],
     [key |-> <<"t">>, thai |-> <<"DoDek">>],
     [key |-> <<"p">>, thai |-> <<"BoBaimai">>],
     [key |-> <<"m">>, thai |-> <<"MoMa">>],
     [key |-> <<"n">>, thai |-> <<"NoNu">>],
     [key |-> <<"w">>, thai |-> <<"WoWaen">>],
     [key |-> <<"y">>, thai |-> <<"YoYak">>] >>

\* Dictionary blocks, each in source order.
BASE_DICTIONARY ==
  << [roman |-> <<"k", "h", "o", "n", "3">>, thai |-> <<"KhoKhwai", "NoNu">>, freq |-> 100],
     [roman |-> <<"k", "h", "o", "o", "n", "3">>, thai |-> <<"KhoKhwai", "SaraU", "NoNen">>, freq |-> 90],
     [roman |-> <<"k", "h", "a", "o", "3">>, thai |-> <<"SaraE", "KhoKhai", "SaraAa">>, freq |-> 80],
     [roman |-> <<"b", "a", "a", "n", "3">>, thai |-> <<"BoBaimai", "MaiTho", "SaraAa", "NoNu">>, freq |-> 95],
     [roman |-> <<"d", "i", "1">>, thai |-> <<"DoDek", "SaraIi">>, freq |-> 85],
     [roman |-> <<"p", "h", "u", "e", "a", "n", "3">>, thai |-> <<"SaraE", "PhoPhan", "SaraUee", "MaiEk", "OAng", "NoNu">>, freq |-> 90],
     [roman |-> <<"e", "r">>, thai |-> <<"SaraE", "OAng", "OAng">>, freq |-> 120],
     [roman |-> <<"e", "r", "r">>, thai |-> <<"SaraE", "OAng", "OAng", "SaraA">>, freq |-> 110],
     [roman |-> <<"d", "e", "r", "n">>, thai |-> <<"SaraE", "DoDek", "SaraI", "NoNu">>, freq |-> 200] >>

\* Irregular/compound words and pseudo-clusters.
COMPOUND_WORDS ==
  << [roman |-> <<"k", "h", "a", "n", "o", "m">>, thai |-> <<"KhoKhai", "NoNu", "MoMa">>, freq |-> 500],
     [roman |-> <<"?", "a", "a", "c", "a", "a", "n">>, thai |-> <<"OAng", "SaraAa", "ChoChan", "SaraAa", "RoRua", "YoYak", "Thanthakhat">>, freq |-> 500],
     [roman |-> <<"a", "a", "c", "a", "a", "n">>, thai |-> <<"OAng", "SaraAa", "ChoChan", "SaraAa", "RoRua", "YoYak", "Thanthakhat">>, freq |-> 500],
     [roman |-> <<"a", "j", "a", "r", "n">>, thai |-> <<"OAng", "SaraAa", "ChoChan", "SaraAa", "RoRua", "YoYak", "Thanthakhat">>, freq |-> 500],
     [roman |-> <<"?", "a", "a", "h", "a", "a", "n">>, thai |-> <<"OAng", "SaraAa", "HoHip", "SaraAa", "RoRua">>, freq |-> 500],
     [roman |-> <<"a", "a", "h", "a", "a", "n">>, thai |-> <<"OAng", "SaraAa", "HoHip", "SaraAa", "RoRua">>, freq |-> 500],
     [roman |-> <<"?", "a", "r", "o", "r", "y">>, thai |-> <<"OAng", "RoRua", "MaiEk", "OAng", "YoYak">>, freq |-> 500],
     [roman |-> <<"a", "r", "o", "r", "y">>, thai |-> <<"OAng", "RoRua", "MaiEk", "OAng", "YoYak">>, freq |-> 500],
     [roman |-> <<"a", "r", "o", "y">>, thai |-> <<"OAng", "RoRua", "MaiEk", "OAng", "YoYak">>, freq |-> 450],
     [roman |-> <<"a", "r", "o", "i">>, thai |-> <<"OAng", "RoRua", "MaiEk", "OAng", "YoYak">>, freq |-> 450],
     [roman |-> <<"p", "h", "u", "y", "i", "n", "g">>, thai |-> <<"PhoPhung", "SaraUu", "MaiTho", "HoHip", "YoYing", "SaraI", "NgoNgu">>, freq |-> 500],
     [roman |-> <<"s", "a", "w", "a", "t", "d", "i", "i">>, thai |-> <<"SoSua", "WoWaen", "MaiHanAkat", "SoSua", "DoDek", "SaraIi">>, freq |-> 1000],
     [roman |-> <<"s", "a", "b", "a", "y">>, thai |-> <<"SoSua", "BoBaimai", "SaraAa", "YoYak">>, freq |-> 400],
     [roman |-> <<"s", "a", "n", "u", "k">>, thai |-> <<"SoSua", "NoNu", "SaraU", "KoKai">>, freq |-> 400],
     [roman |-> <<"s", "a", "n", "a", "m">>, thai |-> <<"SoSua", "NoNu", "SaraAa", "MoMa">>, freq |-> 300],
     [roman |-> <<"a", "r", "a", "k">>, thai |-> <<"OAng", "RoRua", "MaiHanAkat", "KoKai", "SoRusi", "Thanthakhat">>, freq |-> 300],
     [roman |-> <<"t", "a", "l", "a", "a", "t">>, thai |-> <<"ToTao", "LoLing", "SaraAa", "DoDek">>, freq |-> 300],
     [roman |-> <<"t", "h", "a", "l", "a", "y">>, thai |-> <<"ThoThahan", "SaraA", "SaraE", "LoLing">>, freq |-> 300],
     [roman |-> <<"w", "e", "l", "a", "a">>, thai |-> <<"SaraE", "WoWaen", "LoLing", "SaraAa">>, freq |-> 300],
     [roman |-> <<"n", "a", "k", "a">>, thai |-> <<"NoNu", "SaraA", "KhoKhwai", "SaraA">>, freq |-> 300],
     [roman |-> <<"k", "h", "r", "a", "p">>, thai |-> <<"KhoKhwai", "RoRua", "MaiHanAkat", "BoBaimai">>, freq |-> 300],
     [roman |-> <<"s", "a", "b", "a", "a", "y">>, thai |-> <<"SoSua", "BoBaimai", "SaraAa", "YoYak">>, freq |-> 400],
     [roman |-> <<"s", "a", "d", "a", "e", "n", "g">>, thai |-> <<"SaraAe", "SoSua", "DoDek", "NgoNgu">>, freq |-> 350],
     [roman |-> <<"s", "a", "t", "h", "a", "a", "n", "i", "i">>, thai |-> <<"SoSua", "ThoThung", "SaraAa", "NoNu", "SaraIi">>, freq |-> 350],
     [roman |-> <<"s", "a", "t", "r", "i", "i">>, thai |-> <<"SoSua", "ToTao", "RoRua", "SaraIi">>, freq |-> 300],
     [roman |-> <<"t", "h", "a", "n", "o", "n">>, thai |-> <<"ThoThung", "NoNu", "NoNu">>, freq |-> 450],
     [roman |-> <<"s", "a", "m", "u", "t">>, thai |-> <<"SoSua", "MoMa", "SaraU", "DoDek">>, freq |-> 350],
     [roman |-> <<"s", "a", "m", "o", "e">>, thai |-> <<"SaraE", "SoSua", "MoMa", "OAng">>, freq |-> 350],
     [roman |-> <<"s", "a", "n", "a", "a", "m">>, thai |-> <<"SoSua", "NoNu", "SaraAa", "MoMa">>, freq |-> 350],
     [roman |-> <<"c", "h", "a", "l", "a", "a", "t">>, thai |-> <<"ChoChing", "LoLing", "SaraAa", "DoDek">>, freq |-> 350],
     [roman |-> <<"p", "h", "a", "n", "a", "e", "k">>, thai |-> <<"SaraAe", "PhoPhung", "NoNu", "KoKai">>, freq |-> 300],
     [roman |-> <<"c", "h", "a", "l", "a", "a", "m">>, thai |-> <<"ChoChing", "LoLing", "SaraAa", "MoMa">>, freq |-> 300],
     [roman |-> <<"k", "h", "a", "y", "a">>, thai |-> <<"KhoKhai", "YoYak", "SaraA">>, freq |-> 300],
     [roman |-> <<"s", "a", "r", "a">>, thai |-> <<"SoSua", "RoRua", "SaraA">>, freq |-> 300],
     [roman |-> <<"s", "a", "t", "a", "e", "m">>, thai |-> <<"SoSua", "SaraAe", "ToTao", "MoMa", "PoPla", "Thanthakhat">>, freq |-> 250],
     [roman |-> <<"k", "h", "a", "m", "o", "o", "y">>, thai |-> <<"KhoKhai", "SaraO", "MoMa", "YoYak">>, freq |-> 350],
     [roman |-> <<"s", "a", "m", "a", "a", "k", "h", "o", "m">>, thai |-> <<"SoSua", "MoMa", "SaraAa", "KhoKhwai", "MoMa">>, freq |-> 300],
     [roman |-> <<"s", "a", "m", "a", "a", "c", "h", "i", "k">>, thai |-> <<"SoSua", "MoMa", "SaraAa", "ChoChang", "SaraI", "KoKai">>, freq |-> 300],
     [roman |-> <<"s", "a", "m", "a", "a", "t", "h", "i">>, thai |-> <<"SoSua", "MoMa", "SaraAa", "ThoThong", "SaraI">>, freq |-> 300] >>

\* Words spelled with sara ai maimuan.
AI_IRREGULARS ==
  << [roman |-> <<"c", "a", "y">>, thai |-> <<"SaraAiMaimuan", "ChoChan">>, freq |-> 200],
     [roman |-> <<"k", "h", "r", "a", "y">>, thai |-> <<"SaraAiMaimuan", "KhoKhwai", "RoRua">>, freq |-> 200],
     [roman |-> <<"m", "a", "y">>, thai |-> <<"SaraAiMaimuan", "HoHip", "MoMa", "MaiEk">>, freq |-> 200],
     [roman |-> <<"h", "a", "y">>, thai |-> <<"SaraAiMaimuan", "HoHip", "MaiTho">>, freq |-> 200],
     [roman |-> <<"c", "h", "a", "y">>, thai |-> <<"SaraAiMaimuan", "ChoChang", "MaiEk">>, freq |-> 200] >>

\* Bare-vowel suggestions; two entries share the romanForm a.
VOWEL_SUGGESTIONS ==
  << [roman |-> <<"a">>, thai |-> <<"OAng", "SaraA">>, freq |-> 150],
     [roman |-> <<"a">>, thai |-> <<"OAng", "SaraAa">>, freq |-> 140],
     [roman |-> <<"a", "i">>, thai |-> <<"SaraAiMaimalai", "OAng">>, freq |-> 130],
     [roman |-> <<"a", "y">>, thai |-> <<"SaraAiMaimalai", "OAng">>, freq |-> 130] >>

DICTIONARY == BASE_DICTIONARY \o COMPOUND_WORDS \o AI_IRREGULARS \o VOWEL_SUGGESTIONS

-----------------------------------------------------------------------------
(* Python str and dict primitives *)

\* None
Fail == <<"None">>

\* `if x:` on an Optional[str]: None and "" are both falsy
Truthy(x) == x # Fail /\ x # <<>>

Min(S) == CHOOSE x \in S : \A y \in S : x <= y
Max(S) == CHOOSE x \in S : \A y \in S : x >= y

UPPER == <<"A","B","C","D","E","F","G","H","I","J","K","L","M",
           "N","O","P","Q","R","S","T","U","V","W","X","Y","Z">>
LOWER == <<"a","b","c","d","e","f","g","h","i","j","k","l","m",
           "n","o","p","q","r","s","t","u","v","w","x","y","z">>

LowerChar(c) ==
  IF \E i \in 1..Len(UPPER) : UPPER[i] = c
  THEN LOWER[CHOOSE i \in 1..Len(UPPER) : UPPER[i] = c]
  ELSE c

\* str.lower()
RECURSIVE lower(_)
lower(s) == IF s = <<>> THEN <<>> ELSE <<LowerChar(Head(s))>> \o lower(Tail(s))

\* s.startswith(k), s.endswith(k)
startswith(s, k) == Len(k) <= Len(s) /\ SubSeq(s, 1, Len(k)) = k
endswith(s, k) == Len(k) <= Len(s) /\ SubSeq(s, Len(s) - Len(k) + 1, Len(s)) = k

\* s.find(v): lowest 0-based index of v in s, or -1
find(s, v) ==
  LET hits == {i \in 0..(Len(s) - Len(v)) : SubSeq(s, i + 1, i + Len(v)) = v}
  IN IF hits = {} THEN -1 ELSE Min(hits)

\* the keys of a dict literal, in insertion order
Keys(table) == [i \in 1..Len(table) |-> table[i].key]

\* table.get(k, ""): the value of the last item with key k
Get(table, k) ==
  LET hits == {i \in 1..Len(table) : table[i].key = k}
  IN IF hits = {} THEN <<>> ELSE table[Max(hits)].thai

\* k in table
Has(table, k) == \E i \in 1..Len(table) : table[i].key = k

\* sorted(keys, key=len, reverse=True): stable, so keys of one length keep
\* their insertion order
RECURSIVE ByLenFrom(_, _)
ByLenFrom(keys, n) ==
  IF n < 0 THEN <<>>
  ELSE SelectSeq(keys, LAMBDA k : Len(k) = n) \o ByLenFrom(keys, n - 1)

SortedByLenDesc(keys) ==
  IF keys = <<>> THEN <<>>
  ELSE ByLenFrom(keys, Max({Len(keys[i]) : i \in 1..Len(keys)}))

\* faulty variant: the onset keys in insertion order, never sorted by length
OnsetKeysUnsorted == Keys(CONSONANT_ONSET)

ONSET_KEYS == SortedByLenDesc(Keys(CONSONANT_ONSET))
VOWEL_KEYS == SortedByLenDesc(Keys(VOWEL_MAP))
CODA_KEYS == SortedByLenDesc(Keys(CODA_MAP))

-----------------------------------------------------------------------------
(* 2. CORE CONVERSION *)

split_tone(s) ==
  IF s # <<>> /\ Has(TONE_MAP, <<s[Len(s)]>>)
  THEN [core |-> SubSeq(s, 1, Len(s) - 1), tone |-> Get(TONE_MAP, <<s[Len(s)]>>)]
  ELSE [core |-> s, tone |-> <<>>]

match_prefix(keys, s) ==
  LET hits == {i \in 1..Len(keys) : startswith(s, keys[i])}
  IN IF hits = {} THEN [key |-> <<>>, rest |-> s]
     ELSE LET k == keys[Min(hits)]
          IN [key |-> k, rest |-> SubSeq(s, Len(k) + 1, Len(s))]

match_vowel(s) ==
  LET hits == {i \in 1..Len(VOWEL_KEYS) : find(s, VOWEL_KEYS[i]) # -1}
  IN IF hits = {} THEN [key |-> <<>>, before |-> s, after |-> <<>>]
     ELSE LET v == VOWEL_KEYS[Min(hits)]
              idx == find(s, v)
          IN [key |-> v, before |-> SubSeq(s, 1, idx),
              after |-> SubSeq(s, idx + Len(v) + 1, Len(s))]

match_coda(s) ==
  LET hits == {i \in 1..Len(CODA_KEYS) : endswith(s, CODA_KEYS[i])}
  IN IF hits = {} THEN [key |-> <<>>, rest |-> s]
     ELSE LET k == CODA_KEYS[Min(hits)]
          IN [key |-> k, rest |-> SubSeq(s, 1, Len(s) - Len(k))]

\* VOWEL_MAP[vowel_key]
VowelEntry(vowel_key) ==
  VOWEL_MAP[Max({i \in 1..Len(VOWEL_MAP) : VOWEL_MAP[i].key = vowel_key})]

\* onset_thai or "ก"
OrKoKai(onset_thai) == IF onset_thai = <<>> THEN <<"KoKai">> ELSE onset_thai

\* onset_thai[0] + onset_thai[1] when len(onset_thai) > 1, else onset_thai
OnsetGlyphs(onset_thai) ==
  IF Len(onset_thai) > 1 THEN <<onset_thai[1], onset_thai[2]>> ELSE onset_thai

\* faulty variant: in a cluster the stacked vowel and the tone ride the first
\* consonant
AssembleOnFirst(onset_thai, vowel_key, tone) ==
  LET v == VowelEntry(vowel_key)
      o == OrKoKai(onset_thai)
  IN IF Len(o) > 1 THEN v.pre \o <<o[1]>> \o v.main \o tone \o <<o[2]>> \o v.post
     ELSE v.pre \o o \o v.main \o tone \o v.post

assemble(onset_thai, vowel_key, tone) ==
  LET v == VowelEntry(vowel_key)
  IN v.pre \o OnsetGlyphs(OrKoKai(onset_thai)) \o v.main \o tone \o v.post

\* faulty variant: the implicit-o rule is missing
WithVowelNoImplicitO(vowel_key, onset_thai, coda_thai, tone) ==
  IF vowel_key = <<"a">> /\ coda_thai # <<>>
  THEN OnsetGlyphs(OrKoKai(onset_thai)) \o <<"MaiHanAkat">> \o tone \o coda_thai
  ELSE IF vowel_key \in {<<"e", "r">>, <<"o", "e", "e">>}
          /\ coda_thai \in {<<"MoMa">>, <<"NoNu">>, <<"NgoNgu">>}
  THEN <<"SaraE">> \o OnsetGlyphs(OrKoKai(onset_thai)) \o <<"SaraI">> \o tone \o coda_thai
  ELSE assemble(onset_thai, vowel_key, tone) \o coda_thai

\* the special spelling rules and the general assembly, given the parts
WithVowel(vowel_key, onset_thai, coda_thai, tone) ==
  IF vowel_key = <<"o">> /\ coda_thai # <<>>
  THEN OnsetGlyphs(OrKoKai(onset_thai)) \o tone \o coda_thai
  ELSE IF vowel_key = <<"a">> /\ coda_thai # <<>>
  THEN OnsetGlyphs(OrKoKai(onset_thai)) \o <<"MaiHanAkat">> \o tone \o coda_thai
  ELSE IF vowel_key \in {<<"e", "r">>, <<"o", "e", "e">>}
          /\ coda_thai \in {<<"MoMa">>, <<"NoNu">>, <<"NgoNgu">>}
  THEN <<"SaraE">> \o OnsetGlyphs(OrKoKai(onset_thai)) \o <<"SaraI">> \o tone \o coda_thai
  ELSE assemble(onset_thai, vowel_key, tone) \o coda_thai

\* no vowel key: mp is match_prefix(ONSET_KEYS, core)
NoVowel(mp, tone) ==
  IF mp.rest # <<>> THEN Fail
  ELSE OnsetGlyphs(Get(CONSONANT_ONSET, mp.key)) \o tone

\* faulty variant: characters left over around the vowel make the syllable
\* invalid
ConvertPartsStrict(core, tone, mv) ==
  IF mv.key = <<>> THEN NoVowel(match_prefix(ONSET_KEYS, core), tone)
  ELSE IF match_prefix(ONSET_KEYS, mv.before).rest # <<>> \/ match_coda(mv.after).rest # <<>>
  THEN Fail
  ELSE WithVowel(mv.key,
                 Get(CONSONANT_ONSET, match_prefix(ONSET_KEYS, mv.before).key),
                 Get(CODA_MAP, match_coda(mv.after).key),
                 tone)

\* mv is match_vowel(core)
ConvertParts(core, tone, mv) ==
  IF mv.key = <<>> THEN NoVowel(match_prefix(ONSET_KEYS, core), tone)
  ELSE WithVowel(mv.key,
                 Get(CONSONANT_ONSET, match_prefix(ONSET_KEYS, mv.before).key),
                 Get(CODA_MAP, match_coda(mv.after).key),
                 tone)

\* st is split_tone(roman)
ConvertCore(st) == ConvertParts(st.core, st.tone, match_vowel(st.core))

\* roman is already lower-cased
ConvertLower(roman) ==
  IF roman = <<>> THEN <<>> ELSE ConvertCore(split_tone(roman))

convert_syllable(roman) == ConvertLower(lower(roman))

\* faulty variant: roman[i+1:], one character is lost at every cut
RemainderSkipsOne(roman, i) == SubSeq(roman, i + 2, Len(roman))

\* roman[:i] and roman[i:]
Prefix(roman, i) == SubSeq(roman, 1, i)
Remainder(roman, i) == SubSeq(roman, i + 1, Len(roman))

\* recursive_split: SplitFrom(roman, i) is the for loop from index i downwards,
\* SplitAt its body once res is known, SplitRest once rem_res is known
RECURSIVE recursive_split(_)
RECURSIVE SplitFrom(_, _)
RECURSIVE SplitAt(_, _, _)
RECURSIVE SplitRest(_, _, _, _)

SplitRest(roman, i, res, rem_res) ==
  IF Truthy(rem_res) THEN res \o rem_res ELSE SplitFrom(roman, i - 1)

SplitAt(roman, i, res) ==
  IF ~Truthy(res) THEN SplitFrom(roman, i - 1)
  ELSE IF Remainder(roman, i) = <<>> THEN res
  ELSE SplitRest(roman, i, res, recursive_split(Remainder(roman, i)))

SplitFrom(roman, i) ==
  IF i < 2 THEN Fail ELSE SplitAt(roman, i, convert_syllable(Prefix(roman, i)))

recursive_split(roman) ==
  IF roman = <<>> THEN <<>> ELSE SplitFrom(roman, Len(roman))

-----------------------------------------------------------------------------
(* 3. DICTIONARY *)

\* faulty variant: the first entry with a key wins
FirstWith(key) ==
  Min({i \in 1..Len(DICTIONARY) : lower(DICTIONARY[i].roman) = key})

\* DICT_LOOKUP = {e.roman.lower(): e.thai for e in DICTIONARY}: a later
\* entry with the same key overwrites an earlier one
LastWith(key) ==
  Max({i \in 1..Len(DICTIONARY) : lower(DICTIONARY[i].roman) = key})

DICT_LOOKUP ==
  [key \in {lower(DICTIONARY[i].roman) : i \in 1..Len(DICTIONARY)} |->
     DICTIONARY[LastWith(key)].thai]

\* 3. recursive splitting, else the fallback for failure
TrySplit(compound) == IF Truthy(compound) THEN compound ELSE <<"?">>

\* faulty variant: the recursive splitting is never tried
TrySyllableNoSplit(token, syl) == IF Truthy(syl) THEN syl ELSE <<"?">>

\* 2. simple syllable conversion
TrySyllable(token, syl) ==
  IF Truthy(syl) THEN syl ELSE TrySplit(recursive_split(token))

\* 1. exact dictionary match; token is already lower-cased
ConvertLowerToken(token) ==
  IF token \in DOMAIN DICT_LOOKUP THEN DICT_LOOKUP[token]
  ELSE TrySyllable(token, convert_syllable(token))

convert_token(token) == ConvertLowerToken(lower(token))

\* str.split(): the maximal runs of non-whitespace characters; Cur is the run
\* being read
IsSpace(c) == c \in {" ", "\t", "\n"}

RECURSIVE SplitRuns(_, _)
SplitRuns(s, cur) ==
  IF s = <<>> THEN (IF cur = <<>> THEN <<>> ELSE <<cur>>)
  ELSE IF IsSpace(Head(s))
       THEN (IF cur = <<>> THEN <<>> ELSE <<cur>>) \o SplitRuns(Tail(s), <<>>)
       ELSE SplitRuns(Tail(s), Append(cur, Head(s)))

split(text) == SplitRuns(text, <<>>)

\* sep.join(parts)
RECURSIVE join(_, _)
join(sep, parts) ==
  IF parts = <<>> THEN <<>>
  ELSE IF Len(parts) = 1 THEN parts[1]
  ELSE parts[1] \o sep \o join(sep, Tail(parts))

\* faulty variant: the text is never split
ConvertPhraseUnsplit(text) == convert_token(text)

convert_phrase(text) ==
  LET toks == split(text)
  IN join(<<" ">>, [i \in 1..Len(toks) |-> convert_token(toks[i])])

-----------------------------------------------------------------------------
(* 4. SUGGESTIONS *)

Abs(n) == IF n < 0 THEN -n ELSE n

\* sum(a[i] != b[i] for i in range(n)) + abs(len(a) - len(b))
PositionalDiff(a, b) ==
  LET n == IF Len(a) < Len(b) THEN Len(a) ELSE Len(b)
  IN Cardinality({i \in 1..n : a[i] # b[i]}) + Abs(Len(a) - Len(b))

\* src/main.py: module-level, lower-cases both and cuts off at a length gap of 2
simple_distance_main(a0, b0) ==
  LET a == lower(a0)
      b == lower(b0)
  IN IF Abs(Len(a) - Len(b)) > 2 THEN 999 ELSE PositionalDiff(a, b)

\* src/app.py: local to suggest, no lower-casing and no cut-off
simple_distance_app(a, b) == PositionalDiff(a, b)

\* s.replace(old, new, 1)
Replace1(s, old, new) ==
  LET idx == find(s, old)
  IN IF idx = -1 THEN s
     ELSE SubSeq(s, 1, idx) \o new \o SubSeq(s, idx + Len(old) + 1, Len(s))

\* table[k] of an alternates table
Forms(table, k) ==
  table[Max({i \in 1..Len(table) : table[i].key = k})].forms

\* [f(x) for x in forms if x != skip]
AltsExcept(forms, skip) == SelectSeq(forms, LAMBDA alt : alt # skip)

\* one entry per alternate, made by f from the base conversion
OnsetEntries(buffer, default_thai, base_thai, alts) ==
  [i \in 1..Len(alts) |->
     [roman |-> buffer, thai |-> Replace1(base_thai, default_thai, alts[i]), freq |-> 40]]

AltOnsetOf(buffer, roman_onset, default_thai, base_thai) ==
  IF base_thai = <<>> \/ base_thai = <<"?">> THEN <<>>
  ELSE OnsetEntries(buffer, default_thai, base_thai,
                    AltsExcept(Forms(ALT_ONSET_FORMS, roman_onset), default_thai))

AltOnset(buffer, roman_onset) ==
  IF ~Has(ALT_ONSET_FORMS, roman_onset) THEN <<>>
  ELSE AltOnsetOf(buffer, roman_onset, Get(CONSONANT_ONSET, roman_onset),
                  convert_token(buffer))

\* roman_onset, given mv = match_vowel(core)
RomanOnset(core, mv) ==
  IF mv.key = <<>> /\ mv.before = <<>>
  THEN match_prefix(ONSET_KEYS, core).key
  ELSE match_prefix(ONSET_KEYS, mv.before).key

AltOnsetCore(buffer, core) == AltOnset(buffer, RomanOnset(core, match_vowel(core)))

alt_onset_suggestions(buffer) ==
  AltOnsetCore(buffer, split_tone(lower(buffer)).core)

CodaEntries(buffer, base_stem, alts) ==
  [i \in 1..Len(alts) |-> [roman |-> buffer, thai |-> base_stem \o alts[i], freq |-> 35]]

\* base_thai[: -len(default_coda)]
BaseStem(base_thai, default_coda) ==
  IF default_coda = <<>> THEN <<>>
  ELSE SubSeq(base_thai, 1, Len(base_thai) - Len(default_coda))

AltCodaOf(buffer, coda_key, default_coda, base_thai) ==
  IF base_thai = <<>> \/ base_thai = <<"?">> \/ ~endswith(base_thai, default_coda)
  THEN <<>>
  ELSE CodaEntries(buffer, BaseStem(base_thai, default_coda),
                   AltsExcept(Forms(ALT_CODA_FORMS, coda_key), default_coda))

AltCoda(buffer, coda_key) ==
  IF ~Has(ALT_CODA_FORMS, coda_key) THEN <<>>
  ELSE AltCodaOf(buffer, coda_key, Get(CODA_MAP, coda_key), convert_token(buffer))

\* mv = match_vowel(core)
AltCodaVowel(buffer, mv) ==
  IF mv.key = <<>> THEN <<>> ELSE AltCoda(buffer, match_coda(mv.after).key)

alt_coda_suggestions(buffer) ==
  AltCodaVowel(buffer, match_vowel(split_tone(lower(buffer)).core))

\* the closure add(entries) of suggest: append, in order, each entry whose
\* (roman, thai) pair has not been seen; `seen` holds the pairs of everything
\* appended so far, so entry i is appended when no earlier element of
\* results + entries carries its pair
add(results, entries) ==
  LET all == results \o entries
      marked == [i \in 1..Len(all) |->
                   [e |-> all[i],
                    new |-> i <= Len(results)
                            \/ \A j \in 1..(i - 1) :
                                  <<all[j].roman, all[j].thai>> # <<all[i].roman, all[i].thai>>]]
      kept == SelectSeq(marked, LAMBDA m : m.new)
  IN [i \in 1..Len(kept) |-> kept[i].e]

\* faulty variant: equally heavy elements come out in reverse order
SortRankTiesReversed(s, i) ==
  Cardinality({j \in 1..Len(s) :
                 s[j].freq > s[i].freq \/ (s[j].freq = s[i].freq /\ j >= i)})

\* faulty variant: ascending weights
SortRankAscending(s, i) ==
  Cardinality({j \in 1..Len(s) :
                 s[j].freq < s[i].freq \/ (s[j].freq = s[i].freq /\ j <= i)})

\* results.sort(key=lambda e: e.freq, reverse=True): list.sort is stable, so
\* element i ends after every heavier element and after the equally heavy
\* elements that preceded it
SortRank(s, i) ==
  Cardinality({j \in 1..Len(s) :
                 s[j].freq > s[i].freq \/ (s[j].freq = s[i].freq /\ j <= i)})

SortByFreqDesc(s) ==
  LET r == [i \in 1..Len(s) |-> SortRank(s, i)]
  IN [p \in 1..Len(s) |-> s[CHOOSE i \in 1..Len(s) : r[i] = p]]

\* results[:n]
Take(s, n) ==
  IF n >= 0 THEN SubSeq(s, 1, IF n < Len(s) THEN n ELSE Len(s))
  ELSE SubSeq(s, 1, IF Len(s) + n > 0 THEN Len(s) + n ELSE 0)

\* q[:-1] if q[-1] in "12345" else q
QCore(q) ==
  IF q[Len(q)] \in {"1", "2", "3", "4", "5"} THEN SubSeq(q, 1, Len(q) - 1) ELSE q

\* 0 < simple_distance(q_core, e.roman) <= 1
Near(d) == 0 < d /\ d <= 1

\* the fuzzy filter of the two files
FuzzyMain(q_core) ==
  SelectSeq(DICTIONARY, LAMBDA e : Near(simple_distance_main(q_core, e.roman)))
FuzzyApp(q_core) ==
  SelectSeq(DICTIONARY, LAMBDA e : Near(simple_distance_app(q_core, e.roman)))

ExactPrefix(q_core) == SelectSeq(DICTIONARY, LAMBDA e : startswith(e.roman, q_core))

\* the list `results` of suggest just before the sort, src/main.py
MergeMain(buffer, q_core) ==
  add(add(add(add(<<>>, ExactPrefix(q_core)), FuzzyMain(q_core)),
          alt_onset_suggestions(buffer)), alt_coda_suggestions(buffer))

\* the base conversion as a pseudo-entry, if valid
BaseEntry(q, base_val) ==
  IF base_val # <<>> /\ base_val # <<"?">>
  THEN <<[roman |-> q, thai |-> base_val, freq |-> 999]>> ELSE <<>>

\* the same list in src/app.py, which adds the base conversion first
MergeApp(buffer, q, q_core) ==
  add(add(add(add(add(<<>>, BaseEntry(q, convert_token(q))), ExactPrefix(q_core)),
              FuzzyApp(q_core)),
          alt_onset_suggestions(buffer)), alt_coda_suggestions(buffer))

\* if not q: return []
MergedLower(v, buffer, q) ==
  IF q = <<>> THEN <<>>
  ELSE IF v = "app" THEN MergeApp(buffer, q, QCore(q)) ELSE MergeMain(buffer, QCore(q))

Merged(v, buffer) == MergedLower(v, buffer, lower(buffer))

suggest(v, buffer, max_suggestions) ==
  Take(SortByFreqDesc(Merged(v, buffer)), max_suggestions)

-----------------------------------------------------------------------------
(* Inputs *)

\* bounds of the generated inputs
MaxTokenLen == 4
MaxTextLen == 5
MaxLimit == 3
MaxSplitLen == 5

\* suggest's default max_suggestions
DefaultLimit == 8

\* all strings over an alphabet up to a length
Strings(alphabet, n) == UNION {[1..k -> alphabet] : k \in 0..n}

\* s with every character replaced by its upper-case form
UpperChar(c) ==
  IF \E i \in 1..Len(LOWER) : LOWER[i] = c
  THEN UPPER[CHOOSE i \in 1..Len(LOWER) : LOWER[i] = c]
  ELSE c
Upper(s) == [i \in 1..Len(s) |-> UpperChar(s[i])]

ToneDigits == {"1", "2", "3", "4", "5"}
OptTone == {<<>>} \cup {<<d>> : d \in ToneDigits}

DictRomans == {DICTIONARY[i].roman : i \in 1..Len(DICTIONARY)}
OnsetKeySet == {CONSONANT_ONSET[i].key : i \in 1..Len(CONSONANT_ONSET)}
VowelKeySet == {VOWEL_MAP[i].key : i \in 1..Len(VOWEL_MAP)}
CodaKeySet == {CODA_MAP[i].key : i \in 1..Len(CODA_MAP)}

\* an onset (or none), a vowel, a coda (or none) and a tone digit (or none)
Syllables ==
  {o \o v \o c \o t : o \in OnsetKeySet \cup {<<>>}, v \in VowelKeySet,
                      c \in CodaKeySet \cup {<<>>}, t \in OptTone}

\* an onset key and a tone digit (or none), and a tone digit alone
OnsetTone == {o \o t : o \in OnsetKeySet \cup {<<>>}, t \in OptTone}

TokenAlphabet == {"k", "h", "a", "z", "2"}
Tokens ==
  Strings(TokenAlphabet, MaxTokenLen) \cup DictRomans \cup {Upper(r) : r \in DictRomans}
    \cup OnsetTone

\* every non-empty prefix of a dictionary romanForm
DictPrefixes ==
  UNION {{SubSeq(r, 1, k) : k \in 1..Len(r)} : r \in DictRomans}
Buffers ==
  DictPrefixes \cup {Upper(r) : r \in DictRomans} \cup Strings({"k", "a", "n", "3"}, MaxTokenLen)

TextAlphabet == {"k", "a", " ", "\t"}
Texts == Strings(TextAlphabet, MaxTextLen)

SplitAlphabet == {"k", "h", "a", "2"}
SplitTokens == Strings(SplitAlphabet, MaxSplitLen)

Limits == 0..MaxLimit \cup {DefaultLimit}
Variants == {"main", "app"}

-----------------------------------------------------------------------------
(* The engine as a state machine: one call at a time, from idle and back *)

\* no value is being handed back
NoRet == [pending |-> FALSE, val |-> <<>>]

\* the module-level objects every call reads; they are built once, on import
StaticTables ==
  [CONSONANT_ONSET |-> CONSONANT_ONSET, VOWEL_MAP |-> VOWEL_MAP,
   TONE_MAP |-> TONE_MAP, CODA_MAP |-> CODA_MAP,
   DICTIONARY |-> DICTIONARY, DICT_LOOKUP |-> DICT_LOOKUP]

\* a thread that is in no call
NoCall ==
  [pc |-> "idle", fn |-> "none", arg |-> <<>>, limit |-> 0, toks |-> <<>>,
   results |-> <<>>, out |-> <<>>]

MaxThreads == 2
Threads == 1..MaxThreads

Init ==
  /\ tables = StaticTables
  /\ calls = [p \in Threads |-> NoCall]
  /\ pc = "idle"
  /\ arg = <<>>
  /\ limit = 0
  /\ variant = "main"
  /\ merged = <<>>
  /\ out = <<>>
  /\ stack = <<>>
  /\ ret = NoRet

ConvertSyllable ==
  /\ pc = "idle"
  /\ \E s \in Syllables \cup Tokens :
       /\ arg' = s
       /\ out' = convert_syllable(s)
  /\ pc' = "convert_syllable"
  /\ UNCHANGED <<limit, variant, merged, stack, ret, tables, calls>>

ConvertToken ==
  /\ pc = "idle"
  /\ \E t \in Tokens :
       /\ arg' = t
       /\ out' = convert_token(t)
  /\ pc' = "convert_token"
  /\ UNCHANGED <<limit, variant, merged, stack, ret, tables, calls>>

ConvertPhrase ==
  /\ pc = "idle"
  /\ \E text \in Texts :
       /\ arg' = text
       /\ out' = convert_phrase(text)
  /\ pc' = "convert_phrase"
  /\ UNCHANGED <<limit, variant, merged, stack, ret, tables, calls>>

\* merged is the local list `results` as it stands before the sort
Suggest ==
  /\ pc = "idle"
  /\ \E v \in Variants, buffer \in Buffers :
       /\ variant' = v
       /\ arg' = buffer
       /\ merged' = Merged(v, buffer)
       /\ \E n \in Limits :
            /\ limit' = n
            /\ out' = Take(SortByFreqDesc(merged'), n)
  /\ pc' = "suggest"
  /\ UNCHANGED <<stack, ret, tables, calls>>

\* the call returns; nothing of it is kept
Return ==
  /\ pc \in {"convert_syllable", "convert_token", "convert_phrase", "suggest"}
  /\ pc' = "idle"
  /\ arg' = <<>>
  /\ limit' = 0
  /\ variant' = "main"
  /\ merged' = <<>>
  /\ out' = <<>>
  /\ UNCHANGED <<stack, ret, tables, calls>>

Next == ConvertSyllable \/ ConvertToken \/ ConvertPhrase \/ Suggest \/ Return

Spec == Init /\ [][Next]_vars

-----------------------------------------------------------------------------
(* recursive_split step by step: stack holds one frame per activation, the
   running one last; ret is the value a finished activation hands back *)

Returning(v) == [pending |-> TRUE, val |-> v]
\* convert_syllable on the strings the segmenter can meet, evaluated once
SyllableTable == {<<s, convert_syllable(s)>> : s \in SplitTokens}
SyllableOf(s) == (CHOOSE p \in SyllableTable : p[1] = s)[2]

\* an activation at the top of the loop body for index i: prefix = roman[:i],
\* res = convert_syllable(prefix)
Iteration(roman, i) ==
  [roman |-> roman, i |-> i,
   res |-> IF i >= 2 THEN SyllableOf(Prefix(roman, i)) ELSE <<>>]
Frame(roman) == Iteration(roman, Len(roman))

Top == stack[Len(stack)]
Pop == SubSeq(stack, 1, Len(stack) - 1)
Running == pc = "recursive_split" /\ stack # <<>> /\ ~ret.pending

SplitCall ==
  /\ pc = "idle"
  /\ \E t \in SplitTokens :
       /\ arg' = t
       /\ stack' = <<Frame(t)>>
  /\ pc' = "recursive_split"
  /\ ret' = NoRet
  /\ UNCHANGED <<limit, variant, merged, out, tables, calls>>

\* if not roman: return ""
SplitEmpty ==
  /\ Running
  /\ Top.roman = <<>>
  /\ stack' = Pop
  /\ ret' = Returning(<<>>)
  /\ UNCHANGED <<pc, arg, limit, variant, merged, out, tables, calls>>

\* the range is exhausted: return None
SplitExhausted ==
  /\ Running
  /\ Top.roman # <<>>
  /\ Top.i < 2
  /\ stack' = Pop
  /\ ret' = Returning(Fail)
  /\ UNCHANGED <<pc, arg, limit, variant, merged, out, tables, calls>>

\* the prefix does not convert: next i
SplitSkip ==
  /\ Running
  /\ Top.roman # <<>>
  /\ Top.i >= 2
  /\ ~Truthy(Top.res)
  /\ stack' = [stack EXCEPT ![Len(stack)] = Iteration(@.roman, @.i - 1)]
  /\ UNCHANGED <<pc, arg, limit, variant, merged, out, ret, tables, calls>>

\* the prefix converts and nothing remains: return res
SplitWhole ==
  /\ Running
  /\ Top.roman # <<>>
  /\ Top.i >= 2
  /\ Truthy(Top.res)
  /\ Remainder(Top.roman, Top.i) = <<>>
  /\ stack' = Pop
  /\ ret' = Returning(Top.res)
  /\ UNCHANGED <<pc, arg, limit, variant, merged, out, tables, calls>>

\* the prefix converts: recursive_split(remainder)
SplitRecurse ==
  /\ Running
  /\ Top.roman # <<>>
  /\ Top.i >= 2
  /\ Truthy(Top.res)
  /\ Remainder(Top.roman, Top.i) # <<>>
  /\ stack' = Append(stack, Frame(Remainder(Top.roman, Top.i)))
  /\ UNCHANGED <<pc, arg, limit, variant, merged, out, ret, tables, calls>>

\* if rem_res: return res + rem_res
SplitJoin ==
  /\ pc = "recursive_split" /\ stack # <<>> /\ ret.pending
  /\ Truthy(ret.val)
  /\ stack' = Pop
  /\ ret' = Returning(Top.res \o ret.val)
  /\ UNCHANGED <<pc, arg, limit, variant, merged, out, tables, calls>>

\* faulty variant: a failed remainder ends the search
SplitGiveUp ==
  /\ pc = "recursive_split" /\ stack # <<>> /\ ret.pending
  /\ ~Truthy(ret.val)
  /\ stack' = Pop
  /\ ret' = Returning(Fail)
  /\ UNCHANGED <<pc, arg, limit, variant, merged, out, tables, calls>>

\* rem_res is falsy: the loop goes on with a shorter prefix
SplitBacktrack ==
  /\ pc = "recursive_split" /\ stack # <<>> /\ ret.pending
  /\ ~Truthy(ret.val)
  /\ stack' = [stack EXCEPT ![Len(stack)] = Iteration(@.roman, @.i - 1)]
  /\ ret' = NoRet
  /\ UNCHANGED <<pc, arg, limit, variant, merged, out, tables, calls>>

\* the outermost activation has returned
SplitDone ==
  /\ pc = "recursive_split" /\ stack = <<>> /\ ret.pending
  /\ out' = ret.val
  /\ ret' = NoRet
  /\ pc' = "split_done"
  /\ UNCHANGED <<arg, limit, variant, merged, stack, tables, calls>>

SplitReturn ==
  /\ pc = "split_done"
  /\ pc' = "idle"
  /\ arg' = <<>>
  /\ out' = <<>>
  /\ UNCHANGED <<limit, variant, merged, stack, ret, tables, calls>>

SplitRun ==
  \/ SplitEmpty \/ SplitExhausted \/ SplitSkip \/ SplitWhole \/ SplitRecurse
  \/ SplitJoin \/ SplitBacktrack \/ SplitDone

SplitNext == SplitCall \/ SplitRun \/ SplitReturn

\* a call that has started keeps running: nothing suspends it
SplitSpec == Init /\ [][SplitNext]_vars /\ WF_vars(SplitRun)


-----------------------------------------------------------------------------
(* Calls on several threads.  Each thread runs convert_token, convert_phrase
   or suggest (src/main.py) statement by statement; its arguments and local
   variables are its own, the tables are the shared module-level objects and
   are read as they stand when the statement runs. *)

\* convert_token with DICT_LOOKUP as it stands
LookupToken(index, token) ==
  IF token \in DOMAIN index THEN index[token]
  ELSE TrySyllable(token, convert_syllable(token))
ConvertTokenIn(index, token) == LookupToken(index, lower(token))

\* the two scans of DICTIONARY as it stands
ExactPrefixIn(dictionary, q_core) ==
  SelectSeq(dictionary, LAMBDA e : startswith(e.roman, q_core))
FuzzyIn(dictionary, q_core) ==
  SelectSeq(dictionary, LAMBDA e : Near(simple_distance_main(q_core, e.roman)))

\* alt_onset_suggestions and alt_coda_suggestions, whose base_thai is
\* convert_token(buffer)
AltOnsetIn(index, buffer, roman_onset) ==
  IF ~Has(ALT_ONSET_FORMS, roman_onset) THEN <<>>
  ELSE AltOnsetOf(buffer, roman_onset, Get(CONSONANT_ONSET, roman_onset),
                  ConvertTokenIn(index, buffer))
AltOnsetCoreIn(index, buffer, core) ==
  AltOnsetIn(index, buffer, RomanOnset(core, match_vowel(core)))
AltCodaIn(index, buffer, coda_key) ==
  IF ~Has(ALT_CODA_FORMS, coda_key) THEN <<>>
  ELSE AltCodaOf(buffer, coda_key, Get(CODA_MAP, coda_key), ConvertTokenIn(index, buffer))
AltCodaVowelIn(index, buffer, mv) ==
  IF mv.key = <<>> THEN <<>> ELSE AltCodaIn(index, buffer, match_coda(mv.after).key)

\* what the threads are called with
ThreadBuffers == {<<>>, <<"a">>, <<"s", "a", "n">>}
ThreadLimits == {2, DefaultLimit}
ThreadTokens == {<<"A">>, <<"k", "k">>}
ThreadTexts == {<<"a", " ", "k", "k">>}

\* suggest(buffer, max_suggestions) is entered
TSuggest(p) ==
  /\ calls[p].pc = "idle"
  /\ \E buffer \in ThreadBuffers, n \in ThreadLimits :
       calls' = [calls EXCEPT ![p] =
                   [NoCall EXCEPT !.pc = "scan", !.fn = "suggest", !.arg = buffer, !.limit = n]]
  /\ UNCHANGED <<pc, arg, limit, variant, merged, out, stack, ret, tables>>

\* if not q: return []
TSuggestEmpty(p) ==
  /\ calls[p].pc = "scan"
  /\ lower(calls[p].arg) = <<>>
  /\ calls' = [calls EXCEPT ![p].pc = "done", ![p].out = <<>>]
  /\ UNCHANGED <<pc, arg, limit, variant, merged, out, stack, ret, tables>>

\* exact_prefix and fuzzy are read off DICTIONARY; add(exact_prefix), add(fuzzy)
Scanned(dictionary, q_core) ==
  add(add(<<>>, ExactPrefixIn(dictionary, q_core)), FuzzyIn(dictionary, q_core))
TScan(p) ==
  /\ calls[p].pc = "scan"
  /\ lower(calls[p].arg) # <<>>
  /\ calls' = [calls EXCEPT ![p].pc = "alts",
                            ![p].results = Scanned(tables.DICTIONARY, QCore(lower(calls[p].arg)))]
  /\ UNCHANGED <<pc, arg, limit, variant, merged, out, stack, ret, tables>>

\* add(alt_onset_suggestions(buffer)); add(alt_coda_suggestions(buffer))
WithAlts(index, results, buffer, core) ==
  add(add(results, AltOnsetCoreIn(index, buffer, core)),
      AltCodaVowelIn(index, buffer, match_vowel(core)))
TAlts(p) ==
  /\ calls[p].pc = "alts"
  /\ calls' = [calls EXCEPT ![p].pc = "sort",
                            ![p].results = WithAlts(tables.DICT_LOOKUP, calls[p].results,
                                                    calls[p].arg,
                                                    split_tone(lower(calls[p].arg)).core)]
  /\ UNCHANGED <<pc, arg, limit, variant, merged, out, stack, ret, tables>>

\* faulty variant: results is DICTIONARY itself, and the sort reorders it
TSortShared(p) ==
  /\ calls[p].pc = "sort"
  /\ calls' = [calls EXCEPT ![p].pc = "cut", ![p].results = SortByFreqDesc(@)]
  /\ tables' = [tables EXCEPT !.DICTIONARY = SortByFreqDesc(@)]
  /\ UNCHANGED <<pc, arg, limit, variant, merged, out, stack, ret>>

\* results.sort(...): the list of this call, in place
TSort(p) ==
  /\ calls[p].pc = "sort"
  /\ calls' = [calls EXCEPT ![p].pc = "cut", ![p].results = SortByFreqDesc(@)]
  /\ UNCHANGED <<pc, arg, limit, variant, merged, out, stack, ret, tables>>

\* return results[:max_suggestions]
TCut(p) ==
  /\ calls[p].pc = "cut"
  /\ calls' = [calls EXCEPT ![p].pc = "done", ![p].out = Take(calls[p].results, calls[p].limit)]
  /\ UNCHANGED <<pc, arg, limit, variant, merged, out, stack, ret, tables>>

\* convert_token(token): one look at DICT_LOOKUP, then the rules
TConvertToken(p) ==
  /\ calls[p].pc = "idle"
  /\ \E token \in ThreadTokens :
       calls' = [calls EXCEPT ![p] =
                   [NoCall EXCEPT !.pc = "done", !.fn = "convert_token", !.arg = token,
                                  !.out = ConvertTokenIn(tables.DICT_LOOKUP, token)]]
  /\ UNCHANGED <<pc, arg, limit, variant, merged, out, stack, ret, tables>>

\* convert_phrase(text) is entered: text.split()
TConvertPhrase(p) ==
  /\ calls[p].pc = "idle"
  /\ \E text \in ThreadTexts :
       calls' = [calls EXCEPT ![p] =
                   [NoCall EXCEPT !.pc = "tokens", !.fn = "convert_phrase", !.arg = text,
                                  !.toks = split(text)]]
  /\ UNCHANGED <<pc, arg, limit, variant, merged, out, stack, ret, tables>>

\* the generator yields convert_token(t) for the next token
TPhraseToken(p) ==
  /\ calls[p].pc = "tokens"
  /\ calls[p].toks # <<>>
  /\ calls' = [calls EXCEPT ![p].toks = Tail(@),
                            ![p].results = Append(@, ConvertTokenIn(tables.DICT_LOOKUP,
                                                                    Head(calls[p].toks)))]
  /\ UNCHANGED <<pc, arg, limit, variant, merged, out, stack, ret, tables>>

\* the generator is exhausted: " ".join returns
TPhraseJoin(p) ==
  /\ calls[p].pc = "tokens"
  /\ calls[p].toks = <<>>
  /\ calls' = [calls EXCEPT ![p].pc = "done", ![p].out = join(<<" ">>, calls[p].results)]
  /\ UNCHANGED <<pc, arg, limit, variant, merged, out, stack, ret, tables>>

\* the caller has the value; the activation is gone
TReturn(p) ==
  /\ calls[p].pc = "done"
  /\ calls' = [calls EXCEPT ![p] = NoCall]
  /\ UNCHANGED <<pc, arg, limit, variant, merged, out, stack, ret, tables>>

ThreadNext ==
  \E p \in Threads :
    \/ TSuggest(p) \/ TSuggestEmpty(p) \/ TScan(p) \/ TAlts(p) \/ TSort(p) \/ TCut(p)
    \/ TConvertToken(p)
    \/ TConvertPhrase(p) \/ TPhraseToken(p) \/ TPhraseJoin(p)
    \/ TReturn(p)

\* any interleaving of the threads' statements
ThreadSpec == Init /\ [][ThreadNext]_vars

-----------------------------------------------------------------------------
(* Properties *)

\* the entry at index i and the string sentinel
Entry(i) == DICTIONARY[i]
Entries == 1..Len(DICTIONARY)
Sentinel == <<"?">>

\* C1 as stated: for every dictionary entry (r, t, w), entries that share a
\* romanForm included, convert_token(r) returns t.
RoundTripEveryEntry ==
  pc = "convert_token" =>
    \A i \in Entries : lower(arg) = Entry(i).roman => out = Entry(i).thai

\* C1: for every dictionary entry (r, t, w) that is the last entry of the
\* sequence with its romanForm, convert_token(r) returns t, whatever the
\* rule-based conversion of r would be.
RoundTripLastEntry ==
  pc = "convert_token" =>
    \A i \in Entries :
      /\ lower(arg) = Entry(i).roman
      /\ \A j \in Entries : j > i => Entry(j).roman # Entry(i).roman
      => out = Entry(i).thai

\* an upper-case spelling of a shared romanForm returns the later entry's
\* form, which no rule derives
RoundTripWitness ==
  /\ pc = "convert_token"
  /\ arg # lower(arg)
  /\ \E i, j \in Entries :
       /\ i < j
       /\ Entry(i).roman = lower(arg) /\ Entry(j).roman = lower(arg)
       /\ Entry(i).thai # Entry(j).thai
       /\ out = Entry(j).thai
  /\ out # convert_syllable(arg)

\* C2 as stated: convert_token returns the dictionary form if the lower-cased
\* token is in the index; else the single-syllable conversion if the token
\* parses as one syllable (the conversion is not None); else the segmenter's
\* result if segmentation succeeds (is not None); else "?".
FallbackOrderAsStated ==
  pc = "convert_token" =>
    out = IF lower(arg) \in DOMAIN DICT_LOOKUP THEN DICT_LOOKUP[lower(arg)]
          ELSE IF convert_syllable(arg) # Fail THEN convert_syllable(arg)
          ELSE IF recursive_split(arg) # Fail THEN recursive_split(arg)
          ELSE Sentinel

\* C2: convert_token always returns a non-empty string: the dictionary form if
\* the lower-cased token is in the index; else the first non-empty result of
\* the single-syllable conversion and the segmenter, in this order; else "?".
\* An empty result counts as a failure, so the empty token and the token "1"
\* yield "?".
FallbackOrder ==
  pc = "convert_token" =>
    LET rule == <<convert_syllable(arg), recursive_split(arg)>>
        usable == {k \in 1..2 : rule[k] # Fail /\ rule[k] # <<>>}
    IN /\ out # Fail
       /\ out # <<>>
       /\ out = IF lower(arg) \in DOMAIN DICT_LOOKUP THEN DICT_LOOKUP[lower(arg)]
                ELSE IF usable = {} THEN Sentinel
                ELSE rule[Min(usable)]

\* a token outside the dictionary that is no syllable and that the segmenter
\* cuts in two
FallbackWitness ==
  /\ pc = "convert_token"
  /\ lower(arg) \notin DOMAIN DICT_LOOKUP
  /\ convert_syllable(arg) = Fail
  /\ recursive_split(arg) # Fail
  /\ out = recursive_split(arg)
  /\ out # Sentinel

\* C7: for every key k of the onset table, convert_token(k + "1") is exactly
\* the table's glyph sequence for k, with no tone mark; a cluster key is
\* matched whole, never through a shorter key and a leftover.
OnsetKeyToneOne ==
  pc = "convert_token" =>
    \A i \in 1..Len(CONSONANT_ONSET) :
      arg = CONSONANT_ONSET[i].key \o <<"1">> => out = CONSONANT_ONSET[i].thai

\* "khr1" gives the two glyphs of the cluster khr
OnsetKeyWitness ==
  /\ pc = "convert_token"
  /\ arg = <<"k", "h", "r", "1">>
  /\ out = <<"KhoKhwai", "RoRua">>
  /\ Has(CONSONANT_ONSET, <<"k", "h">>)

\* C3: for every buffer whose base conversion convert_token(buffer) is not
\* "?", the first element of suggest(buffer) is that base conversion, the
\* pseudo-entry of weight 999 or an identical (roman, thai) pair ranked at
\* least as high. Stated of src/app.py, the file that synthesizes the entry.
BaseConversionFirst ==
  /\ pc = "suggest"
  /\ variant = "app"
  /\ limit = DefaultLimit
  /\ arg # <<>>
  /\ convert_token(arg) # Sentinel
  => /\ out # <<>>
     /\ out[1].roman = lower(arg)
     /\ out[1].thai = convert_token(arg)

\* the pairs (roman, thai) of a list, and where an element of the returned
\* list stood in the merged list
Pair(e) == <<e.roman, e.thai>>
MergedAt(k) == CHOOSE m \in 1..Len(merged) : merged[m] = out[k]
Kept == {MergedAt(k) : k \in 1..Len(out)}

\* C4: for every buffer and every limit >= 0, the list suggest returns has at
\* most limit elements, non-increasing weights and no two elements with the
\* same (roman, thai) pair; elements of equal weight keep the order in which
\* their sources were merged, and the list is the top-limit prefix of the full
\* ranking: every merged element left out ranks after every element returned.
SuggestRanked ==
  pc = "suggest" =>
    /\ Len(out) = Min({limit, Len(merged)})
    /\ \A k \in 1..Len(out) : \E m \in 1..Len(merged) : merged[m] = out[k]
    /\ \A i, j \in 1..Len(out) :
         i < j => /\ out[i].freq >= out[j].freq
                  /\ Pair(out[i]) # Pair(out[j])
                  /\ out[i].freq = out[j].freq => MergedAt(i) < MergedAt(j)
    /\ \A m \in (1..Len(merged)) \ Kept : \A k \in 1..Len(out) :
         \/ merged[m].freq < out[k].freq
         \/ merged[m].freq = out[k].freq /\ MergedAt(k) < m

\* a call in which the limit cuts the list, the sort moved an element and two
\* returned elements weigh the same
SuggestRankedWitness ==
  /\ pc = "suggest"
  /\ limit > 1
  /\ limit < Len(merged)
  /\ Len(out) = limit
  /\ out # SubSeq(merged, 1, limit)
  /\ \E i \in 1..(Len(out) - 1) : out[i].freq = out[i + 1].freq

\* the Thai forms of the returned list
ThaiForms(s) == {s[k].thai : k \in 1..Len(s)}
RomanA == <<"a">>

\* C10 as stated: when the buffer is exactly the romanForm of a dictionary
\* entry (r, t, w), suggest(r) with the default limit of 8 contains an element
\* whose Thai form is t, for every dictionary entry.
DictEntryAlwaysSuggested ==
  pc = "suggest" /\ limit = DefaultLimit =>
    \A i \in Entries : arg = Entry(i).roman => Entry(i).thai \in ThaiForms(out)

\* C10: when the buffer is exactly the romanForm of a dictionary entry
\* (r, t, w), t is the Thai form of a merged candidate; suggest(r) with the
\* default limit of 8 contains an element whose Thai form is t for every
\* entry whose romanForm is not "a", and with any limit that does not cut the
\* candidate list for every entry.
DictEntrySuggested ==
  pc = "suggest" =>
    \A i \in Entries :
      arg = Entry(i).roman =>
        /\ Entry(i).thai \in ThaiForms(merged)
        /\ limit = DefaultLimit /\ arg # RomanA => Entry(i).thai \in ThaiForms(out)
        /\ limit >= Len(merged) => Entry(i).thai \in ThaiForms(out)

\* a romanForm with more candidates than the limit keeps, its own entry among
\* the eight returned
DictEntrySuggestedWitness ==
  /\ pc = "suggest"
  /\ limit = DefaultLimit
  /\ Len(merged) > DefaultLimit
  /\ Len(out) = DefaultLimit
  /\ arg # RomanA
  /\ \E i \in Entries : arg = Entry(i).roman /\ Entry(i).thai \in ThaiForms(out)

\* the parts the tokenizer finds in a syllable
ToneOf(roman) == split_tone(lower(roman))
VowelOf(roman) == match_vowel(ToneOf(roman).core)

\* characters the tokenizer leaves unmatched: after the onset when there is no
\* vowel; between the onset and the vowel, or between the vowel and the coda,
\* when there is one
HasLeftover(roman) ==
  IF VowelOf(roman).key = <<>>
  THEN match_prefix(ONSET_KEYS, ToneOf(roman).core).rest # <<>>
  ELSE \/ match_prefix(ONSET_KEYS, VowelOf(roman).before).rest # <<>>
       \/ match_coda(VowelOf(roman).after).rest # <<>>

\* C6: whenever characters of a syllable are left unmatched after onset/coda
\* extraction, with or without a vowel, convert_syllable returns None, and
\* convert_token falls through to the segmenter and then to "?".
MalformedSyllableFails ==
  /\ pc = "convert_syllable" /\ HasLeftover(arg) => out = Fail
  /\ pc = "convert_token" /\ HasLeftover(arg) /\ lower(arg) \notin DOMAIN DICT_LOOKUP
       => out = IF Truthy(recursive_split(arg)) THEN recursive_split(arg) ELSE Sentinel

\* the glyphs the tables give for an onset key (none: the placeholder
\* consonant) and for a coda key
TableOnset(o) ==
  IF o = <<>> THEN <<"KoKai">>
  ELSE CONSONANT_ONSET[CHOOSE i \in 1..Len(CONSONANT_ONSET) : CONSONANT_ONSET[i].key = o].thai
TableCoda(c) == CODA_MAP[CHOOSE i \in 1..Len(CODA_MAP) : CODA_MAP[i].key = c].thai
WellFormed(roman) ==
  /\ VowelOf(roman).before \in OnsetKeySet \cup {<<>>}
  /\ VowelOf(roman).after \in CodaKeySet

\* C8: for every onset, coda and tone, a syllable tokenized as onset, vowel key
\* and coda renders as onset + tone + coda when the key is "o"; as onset +
\* mai-han-akat + tone + coda when the key is "a"; as leading sara-e + onset +
\* sara-i + tone + coda when the key is "er" or "oee" and the coda is m, n or
\* ng. convert_syllable("kon1") is onset and coda only, and
\* convert_syllable("dern1") is the dictionary form of "dern".
StructureOverrides ==
  pc = "convert_syllable" =>
    /\ WellFormed(arg) =>
         LET onset == TableOnset(VowelOf(arg).before)
             coda == TableCoda(VowelOf(arg).after)
             tone == ToneOf(arg).tone
             key == VowelOf(arg).key
         IN /\ key = <<"o">> => out = onset \o tone \o coda
            /\ key = <<"a">> => out = onset \o <<"MaiHanAkat">> \o tone \o coda
            /\ /\ key \in {<<"e", "r">>, <<"o", "e", "e">>}
               /\ VowelOf(arg).after \in {<<"m">>, <<"n">>, <<"n", "g">>}
               => out = <<"SaraE">> \o onset \o <<"SaraI">> \o tone \o coda
    /\ arg = <<"k", "o", "n", "1">> => out = <<"KoKai", "NoNu">>
    /\ arg = <<"d", "e", "r", "n", "1">> => out = DICT_LOOKUP[<<"d", "e", "r", "n">>]

\* a cluster onset, the vowel key "o", a coda and a tone mark: "khron3"
StructureOverridesWitness ==
  /\ pc = "convert_syllable"
  /\ arg = <<"k", "h", "r", "o", "n", "3">>
  /\ WellFormed(arg)
  /\ VowelOf(arg).key = <<"o">>
  /\ out = <<"KhoKhwai", "RoRua", "MaiTho", "NoNu">>

\* the k-th smallest element of a set of numbers
Nth(S, k) == CHOOSE x \in S : Cardinality({y \in S : y <= x}) = k

\* the whitespace-delimited tokens of a text, by position
TokenStarts(text) ==
  {i \in 1..Len(text) : ~IsSpace(text[i]) /\ (i = 1 \/ IsSpace(text[i - 1]))}
TokenEnds(text) ==
  {i \in 1..Len(text) : ~IsSpace(text[i]) /\ (i = Len(text) \/ IsSpace(text[i + 1]))}
TokenCount(text) == Cardinality(TokenStarts(text))
TokenAt(text, k) == SubSeq(text, Nth(TokenStarts(text), k), Nth(TokenEnds(text), k))

\* the pieces of a result between its single spaces
Spaces(s) == {i \in 1..Len(s) : s[i] = " "}
PieceAt(s, k) ==
  SubSeq(s, IF k = 1 THEN 1 ELSE Nth(Spaces(s), k - 1) + 1,
            IF k = Cardinality(Spaces(s)) + 1 THEN Len(s) ELSE Nth(Spaces(s), k) - 1)

\* C9: for every text, convert_phrase(text) is the single-space join of
\* convert_token applied to each whitespace-delimited token in order: as many
\* space-separated pieces as tokens, the k-th piece the conversion of the k-th
\* token ("?" for an unconvertible one), and convert_phrase(a + " " + b) =
\* convert_phrase(a) + " " + convert_phrase(b) when a and b each hold a token.
PhrasePerToken ==
  pc = "convert_phrase" =>
    /\ TokenCount(arg) = 0 => out = <<>>
    /\ TokenCount(arg) > 0 =>
         /\ Cardinality(Spaces(out)) + 1 = TokenCount(arg)
         /\ \A k \in 1..TokenCount(arg) : PieceAt(out, k) = convert_token(TokenAt(arg, k))
    /\ \A p \in 1..Len(arg) :
         /\ arg[p] = " "
         /\ TokenCount(SubSeq(arg, 1, p - 1)) > 0
         /\ TokenCount(SubSeq(arg, p + 1, Len(arg))) > 0
         => out = convert_phrase(SubSeq(arg, 1, p - 1)) \o <<" ">>
                    \o convert_phrase(SubSeq(arg, p + 1, Len(arg)))

\* two tokens apart by more than one whitespace character, one converted, the
\* other unconvertible
PhrasePerTokenWitness ==
  /\ pc = "convert_phrase"
  /\ TokenCount(arg) = 2
  /\ \E i \in 1..(Len(arg) - 1) : IsSpace(arg[i]) /\ IsSpace(arg[i + 1])
  /\ \E j, k \in 1..2 : PieceAt(out, j) = Sentinel /\ PieceAt(out, k) # Sentinel
  /\ Len(out) > 2

\* o is the in-order concatenation of the conversions of consecutive pieces
\* that exactly cover s, each piece convertible on its own
RECURSIVE Covers(_, _)
Covers(s, o) ==
  IF s = <<>> THEN o = <<>>
  ELSE \E i \in 1..Len(s) :
         LET piece == convert_syllable(SubSeq(s, 1, i))
         IN /\ Truthy(piece)
            /\ Len(piece) <= Len(o)
            /\ SubSeq(o, 1, Len(piece)) = piece
            /\ Covers(SubSeq(s, i + 1, Len(s)), SubSeq(o, Len(piece) + 1, Len(o)))

\* every activation works on a proper suffix of its caller's string
SplitDescends ==
  \A k \in 2..Len(stack) :
    /\ Len(stack[k].roman) < Len(stack[k - 1].roman)
    /\ endswith(stack[k - 1].roman, stack[k].roman)

\* the result is None or covers the token
SplitSound == pc = "split_done" => out = Fail \/ Covers(arg, out)

\* C5: for every input string of Latin letters and digits, recursive_split
\* terminates, every recursive call being on a strictly shorter remainder, and
\* returns None or the in-order concatenation of the single-syllable
\* conversions of consecutive pieces that exactly cover the token, each piece
\* convertible on its own.
SegmenterTerminatesSound ==
  /\ [](SplitDescends /\ SplitSound)
  /\ (pc = "recursive_split") ~> (pc = "split_done")

\* a token that is no syllable as a whole and that the segmenter covers with
\* several pieces
SegmenterWitness ==
  /\ pc = "split_done"
  /\ out # Fail
  /\ ~Truthy(convert_syllable(arg))
  /\ Len(arg) >= 4
  /\ Covers(arg, out)

\* the value a call returns when it runs alone
Alone(c) ==
  IF c.fn = "suggest" THEN suggest("main", c.arg, c.limit)
  ELSE IF c.fn = "convert_token" THEN convert_token(c.arg)
  ELSE convert_phrase(c.arg)

\* C11: no call of convert_phrase, convert_token or suggest changes the glyph
\* tables, the dictionary sequence or the exact-match index, and under every
\* interleaving of the threads' calls, and after every sequence of earlier
\* calls, each call returns the value it returns when run alone.
CallsArePure ==
  /\ tables = StaticTables
  /\ \A p \in Threads : calls[p].pc = "done" => calls[p].out = Alone(calls[p])

\* one thread has its suggestions while another is between the scan of the
\* dictionary and its sort, for the same buffer
CallsArePureWitness ==
  \E p, q \in Threads :
    /\ p # q
    /\ calls[p].pc = "done" /\ calls[p].fn = "suggest"
    /\ calls[p].out # <<>> /\ calls[p].out # calls[p].results
    /\ calls[q].pc = "sort" /\ calls[q].arg = calls[p].arg
    /\ calls[q].results # SortByFreqDesc(calls[q].results)

\* the first pieces a cut of s can start with: prefixes of length >= 2 that
\* convert on their own and leave a remainder that can be cut in turn
RECURSIVE Segmentable(_)
FirstPieces(s) ==
  {i \in 2..Len(s) : /\ Truthy(convert_syllable(SubSeq(s, 1, i)))
                     /\ Segmentable(SubSeq(s, i + 1, Len(s)))}
Segmentable(s) == s = <<>> \/ FirstPieces(s) # {}

\* the cut that takes the longest possible first piece, again and again
RECURSIVE LongestCut(_)
LongestCut(s) ==
  IF s = <<>> THEN <<>>
  ELSE convert_syllable(SubSeq(s, 1, Max(FirstPieces(s))))
         \o LongestCut(SubSeq(s, Max(FirstPieces(s)) + 1, Len(s)))

SplitComplete ==
  pc = "split_done" =>
    /\ out = Fail <=> ~Segmentable(arg)
    /\ Segmentable(arg) => out = LongestCut(arg)

\* a remainder has just failed and its caller is about to resume
RemainderFailed ==
  pc = "recursive_split" /\ stack # <<>> /\ ret.pending /\ ~Truthy(ret.val)

\* C12: recursive_split returns None only if the token cannot be cut into
\* consecutive pieces of length >= 2 that each convert as a syllable; when
\* several cuts exist the result takes, at every position, the longest prefix
\* whose remainder can be cut; and after a remainder fails the same activation
\* goes on with the next shorter prefix.
BacktrackingComplete ==
  /\ []SplitComplete
  /\ [][RemainderFailed =>
          /\ Len(stack') = Len(stack)
          /\ stack'[Len(stack)].roman = Top.roman
          /\ stack'[Len(stack)].i = Top.i - 1]_vars

\* a token with more than one cut: the result starts with the longest first
\* piece, not with the shortest
BacktrackingWitness ==
  /\ pc = "split_done"
  /\ Len(arg) >= 4
  /\ Cardinality(FirstPieces(arg)) > 1
  /\ out = LongestCut(arg)
  /\ out # Fail
  /\ out # convert_syllable(SubSeq(arg, 1, Min(FirstPieces(arg))))
            \o LongestCut(SubSeq(arg, Min(FirstPieces(arg)) + 1, Len(arg)))

\* the parts the tokenizer matches in a syllable with a vowel key
PartsOf(mv, tone) ==
  [vowel |-> mv.key, tone |-> tone,
   onset |-> match_prefix(ONSET_KEYS, mv.before).key,
   coda |-> match_coda(mv.after).key]
Parts(roman) == PartsOf(VowelOf(roman), ToneOf(roman).tone)
VowelRow(key) == VOWEL_MAP[CHOOSE i \in 1..Len(VOWEL_MAP) : VOWEL_MAP[i].key = key]

\* one of the three structure overrides applies
Overridden(p) ==
  \/ p.vowel \in {<<"o">>, <<"a">>} /\ p.coda # <<>>
  \/ /\ p.vowel \in {<<"e", "r">>, <<"o", "e", "e">>}
     /\ p.coda \in {<<"m">>, <<"n">>, <<"n", "g">>}

\* pre-vowel glyph + onset glyphs + stacked vowel glyph + tone glyph +
\* post-vowel glyph + coda glyph
GeneralOrder(p, row) ==
  row.pre \o TableOnset(p.onset) \o row.main \o p.tone \o row.post
    \o (IF p.coda = <<>> THEN <<>> ELSE TableCoda(p.coda))
GeneralCase(p, result) ==
  p.vowel # <<>> /\ ~Overridden(p) => result = GeneralOrder(p, VowelRow(p.vowel))

\* C13: for every syllable with a vowel key to which no override applies, the
\* result is pre-vowel glyph + all onset glyphs + stacked vowel glyph + tone
\* glyph + post-vowel glyph + coda glyph, an absent onset being the glyph for
\* k; in a two-glyph cluster the stacked vowel and the tone come after the
\* second consonant.
GeneralAssembly == pc = "convert_syllable" => GeneralCase(Parts(arg), out)

\* a cluster onset, a vowel with a leading and a stacked glyph, a tone mark
\* and a coda
ClusterCase(p, result) ==
  /\ p.vowel # <<>>
  /\ ~Overridden(p)
  /\ Len(TableOnset(p.onset)) = 2
  /\ VowelRow(p.vowel).pre # <<>>
  /\ VowelRow(p.vowel).main # <<>>
  /\ p.tone # <<>>
  /\ p.coda # <<>>
  /\ result = GeneralOrder(p, VowelRow(p.vowel))
GeneralAssemblyWitness == pc = "convert_syllable" /\ ClusterCase(Parts(arg), out)

\* the tone-stripped core holds a key of the vowel table
HoldsVowel(core) ==
  \E i \in 1..Len(VOWEL_MAP) :
    \E k \in 0..(Len(core) - Len(VOWEL_MAP[i].key)) :
      SubSeq(core, k + 1, k + Len(VOWEL_MAP[i].key)) = VOWEL_MAP[i].key
HasVowel(token) == HoldsVowel(ToneOf(token).core)

\* an onset key and, optionally, a tone digit
OnsetOnly(piece) ==
  \E i \in 1..Len(CONSONANT_ONSET) :
    \/ piece = CONSONANT_ONSET[i].key
    \/ \E t \in 1..Len(TONE_MAP) : piece = CONSONANT_ONSET[i].key \o TONE_MAP[t].key

\* the pieces of the longest-first cut of a token that can be cut
RECURSIVE CutPieces(_)
CutPieces(s) ==
  IF s = <<>> THEN <<>>
  ELSE <<SubSeq(s, 1, Max(FirstPieces(s)))>>
         \o CutPieces(SubSeq(s, Max(FirstPieces(s)) + 1, Len(s)))
AllOnsetOnly(pieces) == \A k \in 1..Len(pieces) : OnsetOnly(pieces[k])

\* the token misses the dictionary and is no syllable: recursive_split is called
SegmenterCalled(token) ==
  lower(token) \notin DOMAIN DICT_LOOKUP /\ ~Truthy(convert_syllable(token))

=============================================================================
